---------------------------- MODULE Spec2Model ----------------------------
(***************************************************************************)
(* The vault reconciliation engine of read-later-backend: class            *)
(* ObsidianSync (src/unnamed/part_002) over the record store JsonDatabase  *)
(* (src/database-json.js) that server.js wires to it, and a vault of       *)
(* markdown documents.                                                     *)
(*                                                                         *)
(* Values of JavaScript's dynamic types are strings: "true", "false" and   *)
(* "undefined" are the booleans and undefined, "num:x" a number, "str:x" a *)
(* string.  Text (notes) is a sequence of tokens: "A", "B" are words, " "  *)
(* is white space, "##" is a line that starts a second-level heading and   *)
(* "SEP" is the separator line the merge writes.  Timestamps are readings  *)
(* of one millisecond clock.                                               *)
(***************************************************************************)
EXTENDS Integers, Sequences, FiniteSets, TLC

VARIABLES
    articles,    \* JsonDatabase.articles: id -> record
    vault,       \* the files under vaultPath/folderPath: path -> document
    conflicts,   \* ObsidianSync.conflicts, the conflict queue
    config,      \* ObsidianSync.config
    clock,       \* the time new Date() reads
    storeHasUnsynced, \* whether the injected store has getUnsyncedArticles
    pc,          \* where the performFullSync of each request is
    phases,      \* the phases that invocation has completed
    syncWrites,  \* the phases in which that invocation wrote a record or a document
    results,     \* the results object that invocation is filling
    backups,     \* the backup files in the vault root, by their timestamp
    last         \* what the last call returned or threw

vars == <<articles, vault, conflicts, config, clock, storeHasUnsynced,
          pc, phases, syncWrites, results, backups, last>>

---------------------------------------------------------------------------
(* Bounds of the model. *)

MaxArticles == 2      \* records the store holds, and file names in the vault
MaxClock == 1         \* readings of the clock
MaxQueue == 2         \* conflicts the queue is let grow to
MaxNotesLen == 3      \* tokens a record's notes are let grow to
MaxRequests == 2       \* requests the server handles at once

Ids == 1 .. MaxArticles
OrphanId == MaxArticles + 1          \* an id no record has
Paths == 1 .. MaxArticles            \* one path per file name
NoTime == -1                         \* the empty string of a timestamp field
NoPath == 0                          \* the empty string of obsidian_path

---------------------------------------------------------------------------
(* JavaScript values. *)

Truthy(v) == v \notin {"undefined", "false", "num:0", "str:"}

\* An integer id as a sequence index, a set as a sequence in ascending order.
RECURSIVE SetToSeq(_)
SetToSeq(S) ==
    IF S = {} THEN <<>>
    ELSE LET m == CHOOSE x \in S : \A y \in S : x <= y
         IN <<m>> \o SetToSeq(S \ {m})

---------------------------------------------------------------------------
(* The record store: src/database-json.js. *)

NewArticle(t, now) ==
    [exists |-> TRUE, title |-> t,
     is_read |-> "false", is_favorite |-> "false", is_archived |-> "false",
     reading_progress |-> "num:0", notes |-> <<>>,
     updated_at |-> now, obsidian_path |-> NoPath,
     obsidian_synced_at |-> NoTime, obsidian_synced |-> FALSE]

\* The slot of an id the store holds no record for.
NoArticle ==
    [exists |-> FALSE, title |-> 1,
     is_read |-> "false", is_favorite |-> "false", is_archived |-> "false",
     reading_progress |-> "num:0", notes |-> <<>>,
     updated_at |-> 0, obsidian_path |-> NoPath,
     obsidian_synced_at |-> NoTime, obsidian_synced |-> FALSE]

GetArticleById(db, id) ==
    IF id \in Ids /\ db[id].exists THEN db[id] ELSE NoArticle

HasArticle(db, id) == id \in Ids /\ db[id].exists

\* updates is a record holding only the fields to assign.
Assign(a, u) ==
    [f \in DOMAIN a |-> IF f \in DOMAIN u THEN u[f] ELSE a[f]]

UpdateArticle(db, id, u, now) ==
    IF ~HasArticle(db, id) THEN db
    ELSE [db EXCEPT ![id] = Assign(Assign(db[id], u), [updated_at |-> now])]

DeleteArticle(db, id) ==
    IF ~HasArticle(db, id) THEN db ELSE [db EXCEPT ![id] = NoArticle]

GetAllArticles(db) == SelectSeq(SetToSeq(Ids), LAMBDA i : db[i].exists)

\* SELECT * FROM articles WHERE obsidian_synced = FALSE ORDER BY created_at ASC
\* (ids are handed out in creation order).
GetUnsyncedArticles(db) ==
    SelectSeq(SetToSeq(Ids), LAMBDA i : db[i].exists /\ db[i].obsidian_synced = FALSE)

---------------------------------------------------------------------------
(* Vault documents.  A document is its front matter lines, kept as written *)
(* (raw), and the text after its "## My Notes" heading.                    *)

NoFile ==
    [exists |-> FALSE, mtime |-> 0, url |-> FALSE, rid |-> 0,
     read |-> "absent", favorite |-> "absent", archived |-> "absent",
     progress |-> "absent", notes |-> [match |-> FALSE, text |-> <<>>]]

Templates == {"default", "minimal", "detailed"}

\* The text that follows the notes heading in each template: the minimal
\* template has "## Notes", which the notes pattern does not match; in the
\* others the heading is followed by an empty line and "## Related Articles".
TemplateNotes(template) ==
    IF template = "minimal" THEN [match |-> FALSE, text |-> <<>>]
    ELSE [match |-> TRUE, text |-> <<"##">>]

\* No template starts with a "---" line: the rendering has no front matter.
GenerateMarkdownContent(article, template) ==
    [exists |-> TRUE, mtime |-> 0, url |-> FALSE, rid |-> 0,
     read |-> "absent", favorite |-> "absent", archived |-> "absent",
     progress |-> "absent", notes |-> TemplateNotes(template)]

\* sanitizeFileName(title) + '.md' under getFolderPath(article): records of
\* one title (and one folder) share a path.
FilePath(article) == article.title

\* value.trim().replace(/^["']|["']$/g, '') and the coercion of lines 463-466.
StripQuotes(raw) ==
    CASE raw = "'true'" -> "true"
      [] raw = "'false'" -> "false"
      [] OTHER -> raw

CoerceValue(raw) ==
    LET v == StripQuotes(raw) IN
    CASE raw = "absent" -> "undefined"
      [] v = "true" -> "true"
      [] v = "false" -> "false"
      [] v \in {"0", "1", "0.5", "1.5"} -> "num:" \o v
      [] OTHER -> "str:" \o v

ExtractMetadataFromMarkdown(doc) ==
    [url |-> IF doc.url THEN "str:u" ELSE "undefined",
     read_later_id |-> doc.rid,
     read |-> CoerceValue(doc.read),
     favorite |-> CoerceValue(doc.favorite),
     archived |-> CoerceValue(doc.archived),
     progress |-> CoerceValue(doc.progress)]

RECURSIVE UpToHeading(_)
UpToHeading(text) ==
    IF text = <<>> \/ Head(text) = "##" THEN <<>>
    ELSE <<Head(text)>> \o UpToHeading(Tail(text))

RECURSIVE TrimLeft(_)
TrimLeft(text) ==
    IF text # <<>> /\ Head(text) = " " THEN TrimLeft(Tail(text)) ELSE text

RECURSIVE TrimRight(_)
TrimRight(text) ==
    IF text # <<>> /\ text[Len(text)] = " "
    THEN TrimRight(SubSeq(text, 1, Len(text) - 1)) ELSE text

Trim(text) == TrimRight(TrimLeft(text))

\* content.match(/## My Notes\n\n([\s\S]*?)(?=\n## |$)/): group 1, trimmed;
\* the empty text when the pattern does not match.
ObsidianNotes(doc) ==
    IF doc.notes.match THEN Trim(UpToHeading(doc.notes.text)) ELSE <<>>

ExtractUpdatesFromObsidian(metadata, doc) ==
    LET vals == [is_read |-> metadata.read,
                 is_favorite |-> metadata.favorite,
                 is_archived |-> metadata.archived,
                 reading_progress |-> metadata.progress,
                 notes |-> ObsidianNotes(doc)]
        keys == {f \in {"is_read", "is_favorite", "is_archived", "reading_progress"} :
                    vals[f] # "undefined"}
                \cup (IF ObsidianNotes(doc) # <<>> THEN {"notes"} ELSE {})
    IN [f \in keys |-> vals[f]]

\* Mutant: the notes section compared without trim().
DetectChangesUntrimmed(dbArticle, metadata, doc) ==
    (IF metadata.read # dbArticle.is_read THEN {"is_read"} ELSE {})
    \cup (IF metadata.favorite # dbArticle.is_favorite THEN {"is_favorite"} ELSE {})
    \cup (IF (IF doc.notes.match THEN UpToHeading(doc.notes.text) ELSE <<>>)
              # dbArticle.notes THEN {"notes"} ELSE {})

\* The fields detectChanges reports as changed.
DetectChanges(dbArticle, metadata, doc) ==
    (IF metadata.read # dbArticle.is_read THEN {"is_read"} ELSE {})
    \cup (IF metadata.favorite # dbArticle.is_favorite THEN {"is_favorite"} ELSE {})
    \cup (IF ObsidianNotes(doc) # dbArticle.notes THEN {"notes"} ELSE {})

\* A queued conflict, by the fields resolution reads (its type, the two
\* timestamps and the list of changes are carried for display only).
Conflict(articleId, p) == [articleId |-> articleId, obsidianFile |-> p]

\* Mutant: the comparison written >=.
IsNewerOrEqual(doc, article) == doc.mtime >= article.updated_at

\* obsidianModified > dbModified
IsNewer(doc, article) == doc.mtime > article.updated_at

\* Mutant: && written for ||.
IsSkippedBothMissing(metadata) ==
    ~Truthy(metadata.url) /\ metadata.read_later_id = 0

\* !metadata.url || !metadata.read_later_id
IsSkipped(metadata) == ~Truthy(metadata.url) \/ metadata.read_later_id = 0

\* Mutant: the return of lines 414-419 missing, the update applied as well.
OnConflictFallThrough(db, q, articleId, p, updates, now) ==
    [db |-> UpdateArticle(db, articleId, updates, now),
     q |-> Append(q, Conflict(articleId, p)),
     item |-> [file |-> p, success |-> FALSE, action |-> "conflict"]]

\* Lines 404-420: the conflict is queued and the item returned at once.
OnConflict(db, q, articleId, p, updates, now) ==
    [db |-> db, q |-> Append(q, Conflict(articleId, p)),
     item |-> [file |-> p, success |-> FALSE, action |-> "conflict"]]

\* Lines 423-440: the document's values are applied to the record.
OnNoConflict(db, q, articleId, p, updates, now) ==
    IF DOMAIN updates # {}
    THEN [db |-> UpdateArticle(db, articleId, updates, now), q |-> q,
          item |-> [file |-> p, success |-> TRUE, action |-> "imported"]]
    ELSE [db |-> db, q |-> q,
          item |-> [file |-> p, success |-> TRUE, action |-> "no_changes"]]

\* processObsidianFile on the scanned file at path p, from the store db and
\* the queue q at time now: the store and the queue afterwards, the item
\* returned, and (seen) what the call found: whether the document was newer
\* than the record and which tracked fields differed.
ProcessFile(db, q, p, doc, now) ==
    LET metadata == ExtractMetadataFromMarkdown(doc)
        articleId == metadata.read_later_id
        existing == GetArticleById(db, articleId)
        changes == DetectChanges(existing, metadata, doc)
        updates == ExtractUpdatesFromObsidian(metadata, doc)
        found == [managed |-> TRUE, newer |-> IsNewer(doc, existing),
                  changes |-> changes]
        unmanaged == [managed |-> FALSE, newer |-> FALSE, changes |-> {}]
    IN
    IF IsSkipped(metadata)
    THEN [db |-> db, q |-> q, seen |-> unmanaged,
          item |-> [file |-> p, success |-> FALSE, action |-> "skipped"]]
    ELSE IF ~HasArticle(db, articleId)
    THEN [db |-> db, q |-> q, seen |-> unmanaged,
          item |-> [file |-> p, success |-> FALSE, action |-> "orphaned"]]
    ELSE IF IsNewer(doc, existing) /\ changes # {}
    THEN [seen |-> found] @@ OnConflict(db, q, articleId, p, updates, now)
    ELSE [seen |-> found] @@ OnNoConflict(db, q, articleId, p, updates, now)

---------------------------------------------------------------------------
(* Scanning and the import pass. *)

\* Mutant: every .md file read is pushed.
ScanPushesEveryFile(doc) == TRUE

\* scanDirectory is a plain nested function called as scanDirectory(dir):
\* inside a class body its `this` is undefined, so line 346 throws a
\* TypeError before files.push, the catch of lines 357-359 swallows it and the
\* walk of that directory ends: no file is ever pushed.
ScanPushes(doc) == FALSE

ScanObsidianFiles(files) ==
    SelectSeq(SetToSeq(Paths), LAMBDA p : files[p].exists /\ ScanPushes(files[p]))

\* A vault folder that was never created holds no file: fs.mkdir makes it
\* at the first write (line 147).
FolderMissing(files) == \A p \in Paths : ~files[p].exists

\* Mutant: the error of fs.readdir leaves scanObsidianFiles.
ScanErrorRethrown(files) ==
    IF FolderMissing(files) THEN "Failed to scan Obsidian files" ELSE ""

\* The error scanObsidianFiles throws: fs.readdir of a missing folder throws
\* inside scanDirectory, whose catch (lines 357-359) swallows it, so none.
ScanError(files) == ""

RECURSIVE ImportFold(_, _, _, _, _)
ImportFold(db, q, files, scanned, now) ==
    IF scanned = <<>> THEN [db |-> db, q |-> q, items |-> <<>>, seen |-> <<>>]
    ELSE LET r == ProcessFile(db, q, Head(scanned), files[Head(scanned)], now)
             rest == ImportFold(r.db, r.q, files, Tail(scanned), now)
         IN [db |-> rest.db, q |-> rest.q, items |-> <<r.item>> \o rest.items,
             seen |-> <<r.seen>> \o rest.seen]

Successes(items) == Len(SelectSeq(items, LAMBDA r : r.success))
Failures(items) == Len(SelectSeq(items, LAMBDA r : ~r.success))

\* What a call returned (items, synced, failed) or threw (error), with what
\* it found on the way (seen).
Report(op, error, items, seen) ==
    [op |-> op, error |-> error, items |-> items, seen |-> seen,
     synced |-> Successes(items), failed |-> Failures(items)]

NoReport == Report("none", "", <<>>, <<>>)

---------------------------------------------------------------------------
(* The environment: the clock, the user's editor, the REST routes.  The     *)
(* report of the last sync call (last) is read by its caller before anything *)
(* else happens: every step of the environment clears it.                   *)

Tick ==
    /\ clock < MaxClock
    /\ clock' = clock + 1
    /\ last' = NoReport
    /\ UNCHANGED <<articles, vault, conflicts, config, storeHasUnsynced,
                   pc, phases, syncWrites, results, backups>>

\* The user saves document d at path p.
UserEditFile(p, d) ==
    /\ vault' = [vault EXCEPT ![p] = [d EXCEPT !.exists = TRUE, !.mtime = clock]]
    /\ last' = NoReport
    /\ UNCHANGED <<articles, conflicts, config, clock, storeHasUnsynced,
                   pc, phases, syncWrites, results, backups>>

UserDeleteFile(p) ==
    /\ vault[p].exists
    /\ vault' = [vault EXCEPT ![p] = NoFile]
    /\ last' = NoReport
    /\ UNCHANGED <<articles, conflicts, config, clock, storeHasUnsynced,
                   pc, phases, syncWrites, results, backups>>

\* PUT /api/articles/:id with body {f: v}.
ApiUpdateArticle(id, f, v) ==
    /\ HasArticle(articles, id)
    /\ articles' = UpdateArticle(articles, id, [g \in {f} |-> v], clock)
    /\ last' = NoReport
    /\ UNCHANGED <<vault, conflicts, config, clock, storeHasUnsynced,
                   pc, phases, syncWrites, results, backups>>

\* DELETE /api/articles/:id
ApiDeleteArticle(id) ==
    /\ HasArticle(articles, id)
    /\ articles' = DeleteArticle(articles, id)
    /\ last' = NoReport
    /\ UNCHANGED <<vault, conflicts, config, clock, storeHasUnsynced,
                   pc, phases, syncWrites, results, backups>>

---------------------------------------------------------------------------
(* The import operations of ObsidianSync. *)

\* processObsidianFile(file) for the file object of the document at p.
ProcessObsidianFile(p) ==
    /\ vault[p].exists
    /\ LET r == ProcessFile(articles, conflicts, p, vault[p], clock) IN
       /\ Len(r.q) <= MaxQueue
       /\ articles' = r.db
       /\ conflicts' = r.q
       /\ last' = Report("processObsidianFile", "", <<r.item>>, <<r.seen>>)
    /\ UNCHANGED <<vault, config, clock, storeHasUnsynced,
                   pc, phases, syncWrites, results, backups>>

\* syncFromObsidian()
SyncFromObsidian ==
    /\ LET r == ImportFold(articles, conflicts, vault, ScanObsidianFiles(vault), clock) IN
       IF ScanError(vault) # ""
       THEN /\ last' = Report("syncFromObsidian",
                              "Import sync failed: " \o ScanError(vault), <<>>, <<>>)
            /\ UNCHANGED <<articles, conflicts>>
       ELSE /\ Len(r.q) <= MaxQueue
            /\ articles' = r.db
            /\ conflicts' = r.q
            /\ last' = Report("syncFromObsidian", "", r.items, r.seen)
    /\ UNCHANGED <<vault, config, clock, storeHasUnsynced,
                   pc, phases, syncWrites, results, backups>>

---------------------------------------------------------------------------
(* Writing a document and resolving conflicts. *)

\* createMarkdownFile(article) when fs.mkdir and fs.writeFile succeed: the
\* rendering is written to the path the title and the folder layout give.
CreateMarkdownFile(files, article, template, now) ==
    [files EXCEPT ![FilePath(article)] =
        [GenerateMarkdownContent(article, template) EXCEPT !.mtime = now]]

Outcome(c, success, action) ==
    [file |-> c.obsidianFile, success |-> success, action |-> action]

\* What one resolution leaves: the store, the vault, the outcome pushed, and
\* (seen) the record and the document it started from and the record after.
Resolved(db, files, c, out, after) ==
    [db |-> after, files |-> files, item |-> out,
     seen |-> [before |-> GetArticleById(db, c.articleId),
               had |-> HasArticle(db, c.articleId),
               doc |-> files[c.obsidianFile],
               after |-> GetArticleById(after, c.articleId)]]

ResolveFailed(db, files, c) ==
    Resolved(db, files, c, Outcome(c, FALSE, "error"), db)

\* resolveConflictObsidianWins
ResolveConflictObsidianWins(db, files, c, now) ==
    LET doc == files[c.obsidianFile]
        metadata == ExtractMetadataFromMarkdown(doc)
        updates == ExtractUpdatesFromObsidian(metadata, doc)
    IN IF ~doc.exists THEN ResolveFailed(db, files, c)
       ELSE Resolved(db, files, c, Outcome(c, TRUE, "obsidian_wins"),
                     UpdateArticle(db, c.articleId, updates, now))

\* resolveConflictAppWins: createMarkdownFile takes one parameter, the path
\* of the conflict passed second is not read.
ResolveConflictAppWins(db, files, c, template, now, writeOk) ==
    IF ~HasArticle(db, c.articleId) \/ ~writeOk THEN ResolveFailed(db, files, c)
    ELSE [Resolved(db, files, c, Outcome(c, TRUE, "app_wins"), db)
            EXCEPT !.files = CreateMarkdownFile(files, db[c.articleId], template, now)]

\* Mutant: the two sides concatenated in the other order.
MergedNotesVaultFirst(dbNotes, obsidianNotes) ==
    IF obsidianNotes # <<>> /\ dbNotes # <<>> /\ obsidianNotes # dbNotes
    THEN [set |-> TRUE, notes |-> obsidianNotes \o <<"SEP">> \o dbNotes]
    ELSE IF obsidianNotes # <<>>
    THEN [set |-> TRUE, notes |-> obsidianNotes]
    ELSE [set |-> FALSE, notes |-> <<>>]

\* Lines 615-623: the notes the merge assigns, none ("undefined") when it
\* assigns none.
MergedNotes(dbNotes, obsidianNotes) ==
    IF obsidianNotes # <<>> /\ dbNotes # <<>> /\ obsidianNotes # dbNotes
    THEN [set |-> TRUE, notes |-> dbNotes \o <<"SEP">> \o obsidianNotes]
    ELSE IF obsidianNotes # <<>>
    THEN [set |-> TRUE, notes |-> obsidianNotes]
    ELSE [set |-> FALSE, notes |-> <<>>]

\* Mutant: && written for ||.
MergedFlagAnd(obsidianValue, dbValue) == Truthy(obsidianValue) /\ Truthy(dbValue)

\* Lines 626-627: whether the merge assigns true to a boolean field.
MergedFlag(obsidianValue, dbValue) == Truthy(obsidianValue) \/ Truthy(dbValue)

\* resolveConflictMerge
ResolveConflictMerge(db, files, c, now) ==
    LET doc == files[c.obsidianFile]
        article == GetArticleById(db, c.articleId)
        metadata == ExtractMetadataFromMarkdown(doc)
        merged == MergedNotes(article.notes, ObsidianNotes(doc))
        vals == [notes |-> merged.notes, is_read |-> "true", is_favorite |-> "true"]
        keys == (IF merged.set THEN {"notes"} ELSE {})
                \cup (IF MergedFlag(metadata.read, article.is_read)
                      THEN {"is_read"} ELSE {})
                \cup (IF MergedFlag(metadata.favorite, article.is_favorite)
                      THEN {"is_favorite"} ELSE {})
    IN IF ~HasArticle(db, c.articleId) \/ ~doc.exists THEN ResolveFailed(db, files, c)
       ELSE Resolved(db, files, c, Outcome(c, TRUE, "merged"),
                     UpdateArticle(db, c.articleId, [f \in keys |-> vals[f]], now))

\* Mutant: the default of the switch resolves as the vault-wins policy does.
ResolveConflictDefaultVaultWins(db, files, c, cfg, now, writeOk) ==
    CASE cfg.conflictResolution = "app_wins" ->
            ResolveConflictAppWins(db, files, c, cfg.template, now, writeOk)
      [] cfg.conflictResolution = "merge" ->
            ResolveConflictMerge(db, files, c, now)
      [] OTHER -> ResolveConflictObsidianWins(db, files, c, now)

\* resolveConflict: the switch on config.conflictResolution.
ResolveConflict(db, files, c, cfg, now, writeOk) ==
    CASE cfg.conflictResolution = "obsidian_wins" ->
            ResolveConflictObsidianWins(db, files, c, now)
      [] cfg.conflictResolution = "app_wins" ->
            ResolveConflictAppWins(db, files, c, cfg.template, now, writeOk)
      [] cfg.conflictResolution = "merge" ->
            ResolveConflictMerge(db, files, c, now)
      [] OTHER -> Resolved(db, files, c, Outcome(c, FALSE, "manual"), db)

\* Mutant: a resolution that throws ends the loop.
NoneAfterThrow(q) == <<>>

\* Lines 539-545: the catch inside the loop records the failure and the loop
\* goes on with the conflicts that remain.
RemainingAfterThrow(q) == Tail(q)

\* The loop of resolveConflicts over the queue q; failed holds the positions
\* (counted from the end of q) whose file write fails.
RECURSIVE ResolveFold(_, _, _, _, _, _)
ResolveFold(db, files, q, cfg, now, failed) ==
    IF q = <<>> THEN [db |-> db, files |-> files, items |-> <<>>, seen |-> <<>>]
    ELSE LET r == ResolveConflict(db, files, Head(q), cfg, now, Len(q) \notin failed)
             rest == ResolveFold(r.db, r.files,
                                 IF r.item.action = "error"
                                 THEN RemainingAfterThrow(q) ELSE Tail(q),
                                 cfg, now, failed)
         IN [db |-> rest.db, files |-> rest.files,
             items |-> <<r.item>> \o rest.items, seen |-> <<r.seen>> \o rest.seen]

NotesWithin(db) == \A i \in Ids : Len(db[i].notes) <= MaxNotesLen

\* updateConfig(newConfig)
UpdateConfig(cfg, newConfig) == Assign(cfg, newConfig)

\* The write failures a call can meet: only the record-wins policy writes.
WriteFailures(cfg, q) ==
    IF cfg.conflictResolution = "app_wins" THEN SUBSET (1 .. Len(q)) ELSE {{}}

\* POST /api/sync/resolve-conflicts with body {resolution_strategy}: the
\* policy is set when the strategy is given ("" when it is not), then
\* resolveConflicts() runs over the queue.
ApiResolveConflicts(strategy) ==
    LET cfg == IF strategy = "" THEN config
               ELSE UpdateConfig(config, [conflictResolution |-> strategy])
    IN \E failed \in WriteFailures(cfg, conflicts) :
        LET r == ResolveFold(articles, vault, conflicts, cfg, clock, failed) IN
        /\ NotesWithin(r.db)
        /\ config' = cfg
        /\ articles' = r.db
        /\ vault' = r.files
        /\ last' = Report("resolveConflicts", "", r.items, r.seen)
        /\ UNCHANGED <<conflicts, clock, storeHasUnsynced,
                       pc, phases, syncWrites, results, backups>>

---------------------------------------------------------------------------
(* The export pass. *)

\* Mutant: a failed write ends the loop.
AbortAfterFailure(ids) == <<>>

\* Lines 91-98: the catch inside the loop records the failure and the loop
\* goes on with the articles that remain.
RemainingAfterFailure(ids) == Tail(ids)

\* Mutant: the record is marked whether or not its file was written.
AfterWriteAlwaysMarks(db, id, path, now, ok) ==
    UpdateArticle(db, id, [obsidian_path |-> path, obsidian_synced_at |-> now], now)

\* Lines 79-83: the record is marked with the path and the time of the sync
\* once createMarkdownFile has returned; when it throws the update is not
\* reached.
AfterWrite(db, id, path, now, ok) ==
    IF ok THEN UpdateArticle(db, id,
                   [obsidian_path |-> path, obsidian_synced_at |-> now], now)
    ELSE db

\* The loop of syncToObsidian over the unsynced ids; failed holds the ids
\* whose createMarkdownFile throws.
RECURSIVE ExportFold(_, _, _, _, _, _)
ExportFold(db, files, ids, template, now, failed) ==
    IF ids = <<>> THEN [db |-> db, files |-> files, items |-> <<>>, seen |-> <<>>]
    ELSE LET id == Head(ids)
             path == FilePath(db[id])
             ok == id \notin failed
             db1 == AfterWrite(db, id, path, now, ok)
             files1 == IF ok THEN CreateMarkdownFile(files, db[id], template, now)
                       ELSE files
             item == [file |-> path, success |-> ok,
                      action |-> IF ok THEN "exported" ELSE "export_failed"]
             rest == ExportFold(db1, files1,
                                IF ok THEN Tail(ids) ELSE RemainingAfterFailure(ids),
                                template, now, failed)
         IN [db |-> rest.db, files |-> rest.files,
             items |-> <<item>> \o rest.items,
             seen |-> <<[id |-> id, threw |-> ~ok]>> \o rest.seen]

\* syncToObsidian(): it throws when the store has no getUnsyncedArticles
\* (JsonDatabase has none).
ExportPass(db, files, has, template, now, failed) ==
    IF ~has
    THEN [error |-> "Export sync failed", db |-> db, files |-> files,
          items |-> <<>>, seen |-> <<>>]
    ELSE [error |-> ""] @@
         ExportFold(db, files, GetUnsyncedArticles(db), template, now, failed)

\* The ids a pass can fail to write.
ExportFailures(db, has) ==
    IF has THEN SUBSET {i \in Ids : db[i].exists /\ db[i].obsidian_synced = FALSE}
    ELSE {{}}

SyncToObsidian ==
    \E failed \in ExportFailures(articles, storeHasUnsynced) :
        LET r == ExportPass(articles, vault, storeHasUnsynced, config.template,
                            clock, failed) IN
        /\ articles' = r.db
        /\ vault' = r.files
        /\ last' = Report("syncToObsidian", r.error, r.items, r.seen)
        /\ UNCHANGED <<conflicts, config, clock, storeHasUnsynced,
                       pc, phases, syncWrites, results, backups>>

---------------------------------------------------------------------------
(* performFullSync, one step per awaited phase. *)

IncludesExport(cfg) == cfg.syncDirection \in {"export", "both"}
IncludesImport(cfg) == cfg.syncDirection \in {"import", "both"}

\* The phase that follows the import (lines 55-59): resolution when the
\* queue q holds a conflict, the return otherwise.
AfterImport(q) == IF q # <<>> THEN "resolve" ELSE "return"

\* The phase that follows the export (lines 48-53).
AfterExport(cfg, q) == IF IncludesImport(cfg) THEN "import" ELSE AfterImport(q)

\* The phase that follows the backup (lines 41-46).
AfterBackup(cfg, q) == IF IncludesExport(cfg) THEN "export" ELSE AfterExport(cfg, q)

\* Mutant: the backup is not taken first.
FirstPhaseSkipsBackup(cfg, q) == AfterBackup(cfg, q)

\* The phase performFullSync starts with (lines 36-39).
FirstPhase(cfg, q) == IF cfg.backupBeforeSync THEN "backup" ELSE AfterBackup(cfg, q)

\* Mutant: the error of the backup is swallowed and the sync goes on.
AfterBackupFailureGoesOn(cfg, q) == AfterBackup(cfg, q)

\* Where a failed backup leaves the invocation: the error of createBackup
\* leaves the try block of performFullSync.
AfterBackupFailure(cfg, q) == "idle"

NoResults == [details |-> <<>>, seen |-> <<>>, conflicts |-> <<>>]

Changed(db, files) == db # articles \/ files # vault

\* The requests the server can be handling at once: each is one invocation
\* of performFullSync, suspended at its awaits.
Requests == 1 .. MaxRequests

\* Lines 23-34 of the invocation of request r.
FullSyncStart(r) ==
    /\ pc[r] = "idle"
    /\ IF ~config.enabled \/ config.vaultPath = ""
       THEN /\ last' = Report("performFullSync", "Obsidian sync not configured", <<>>, <<>>)
            /\ UNCHANGED <<conflicts, pc, phases, syncWrites, results>>
       ELSE /\ conflicts' = <<>>
            /\ pc' = [pc EXCEPT ![r] = FirstPhase(config, <<>>)]
            /\ phases' = [phases EXCEPT ![r] = <<>>]
            /\ syncWrites' = [syncWrites EXCEPT ![r] = {}]
            /\ results' = [results EXCEPT ![r] = NoResults]
            /\ last' = NoReport
    /\ UNCHANGED <<articles, vault, config, clock, storeHasUnsynced, backups>>

\* Lines 37-39 and createBackup: the write of the backup file succeeds or
\* throws.
FullSyncBackup(r) ==
    /\ pc[r] = "backup"
    /\ \E ok \in BOOLEAN :
        IF ok
        THEN /\ backups' = backups \cup {clock}
             /\ phases' = [phases EXCEPT ![r] = Append(@, "backup")]
             /\ pc' = [pc EXCEPT ![r] = AfterBackup(config, conflicts)]
             /\ UNCHANGED last
        ELSE /\ pc' = [pc EXCEPT ![r] = AfterBackupFailure(config, conflicts)]
             /\ last' = Report("performFullSync",
                               "Full sync failed: Failed to create backup", <<>>, <<>>)
             /\ UNCHANGED <<backups, phases>>
    /\ UNCHANGED <<articles, vault, conflicts, config, clock, storeHasUnsynced,
                   syncWrites, results>>

\* Lines 42-46.
FullSyncExport(r) ==
    /\ pc[r] = "export"
    /\ \E failed \in ExportFailures(articles, storeHasUnsynced) :
        LET x == ExportPass(articles, vault, storeHasUnsynced, config.template,
                            clock, failed) IN
        /\ articles' = x.db
        /\ vault' = x.files
        /\ IF x.error # ""
           THEN /\ pc' = [pc EXCEPT ![r] = "idle"]
                /\ last' = Report("performFullSync",
                                  "Full sync failed: " \o x.error, <<>>, <<>>)
                /\ phases' = [phases EXCEPT ![r] = <<>>]
                /\ syncWrites' = [syncWrites EXCEPT ![r] = {}]
                /\ results' = [results EXCEPT ![r] = NoResults]
           ELSE /\ pc' = [pc EXCEPT ![r] = AfterExport(config, conflicts)]
                /\ phases' = [phases EXCEPT ![r] = Append(@, "export")]
                /\ syncWrites' = [syncWrites EXCEPT ![r] = @ \cup
                       (IF Changed(x.db, x.files) THEN {"export"} ELSE {})]
                /\ results' = [results EXCEPT ![r].details = @ \o x.items,
                                              ![r].seen = @ \o x.seen]
                /\ UNCHANGED last
    /\ UNCHANGED <<conflicts, config, clock, storeHasUnsynced, backups>>

\* Lines 49-53.
FullSyncImport(r) ==
    /\ pc[r] = "import"
    /\ LET x == ImportFold(articles, conflicts, vault, ScanObsidianFiles(vault), clock) IN
       IF ScanError(vault) # ""
       THEN /\ pc' = [pc EXCEPT ![r] = "idle"]
            /\ last' = Report("performFullSync",
                              "Full sync failed: Import sync failed: "
                                  \o ScanError(vault), <<>>, <<>>)
            /\ phases' = [phases EXCEPT ![r] = <<>>]
            /\ syncWrites' = [syncWrites EXCEPT ![r] = {}]
            /\ results' = [results EXCEPT ![r] = NoResults]
            /\ UNCHANGED <<articles, conflicts>>
       ELSE /\ Len(x.q) <= MaxQueue
            /\ articles' = x.db
            /\ conflicts' = x.q
            /\ pc' = [pc EXCEPT ![r] = AfterImport(x.q)]
            /\ phases' = [phases EXCEPT ![r] = Append(@, "import")]
            /\ syncWrites' = [syncWrites EXCEPT ![r] = @ \cup
                   (IF Changed(x.db, vault) THEN {"import"} ELSE {})]
            /\ results' = [results EXCEPT ![r].details = @ \o x.items,
                                          ![r].seen = @ \o x.seen]
            /\ UNCHANGED last
    /\ UNCHANGED <<vault, config, clock, storeHasUnsynced, backups>>

\* Lines 56-59.
FullSyncResolve(r) ==
    /\ pc[r] = "resolve"
    /\ \E failed \in WriteFailures(config, conflicts) :
        LET x == ResolveFold(articles, vault, conflicts, config, clock, failed) IN
        /\ NotesWithin(x.db)
        /\ articles' = x.db
        /\ vault' = x.files
        /\ pc' = [pc EXCEPT ![r] = "return"]
        /\ phases' = [phases EXCEPT ![r] = Append(@, "resolve")]
        /\ syncWrites' = [syncWrites EXCEPT ![r] = @ \cup
               (IF Changed(x.db, x.files) THEN {"resolve"} ELSE {})]
        /\ results' = [results EXCEPT ![r].conflicts = x.items]
    /\ UNCHANGED <<conflicts, config, clock, storeHasUnsynced, backups, last>>

\* Lines 61-65: the results object is returned and the invocation is over.
FullSyncReturn(r) ==
    /\ pc[r] = "return"
    /\ pc' = [pc EXCEPT ![r] = "idle"]
    /\ last' = Report("performFullSync", "", results[r].details, results[r].seen)
    /\ phases' = [phases EXCEPT ![r] = <<>>]
    /\ syncWrites' = [syncWrites EXCEPT ![r] = {}]
    /\ results' = [results EXCEPT ![r] = NoResults]
    /\ UNCHANGED <<articles, vault, conflicts, config, clock, storeHasUnsynced,
                   backups>>

---------------------------------------------------------------------------
(* Construction. *)

\* The configuration the constructor builds from POST /api/sync/obsidian.
Config(direction, policy, backup, template) ==
    [enabled |-> TRUE, vaultPath |-> "vault", syncDirection |-> direction,
     conflictResolution |-> policy, backupBeforeSync |-> backup,
     template |-> template]

DefaultConfig == Config("both", "obsidian_wins", TRUE, "default")

InitEngine ==
    /\ conflicts = <<>>
    /\ clock = 0
    /\ pc = [r \in Requests |-> "idle"]
    /\ phases = [r \in Requests |-> <<>>]
    /\ syncWrites = [r \in Requests |-> {}]
    /\ results = [r \in Requests |-> NoResults]
    /\ backups = {}
    /\ last = NoReport

---------------------------------------------------------------------------
(* The import pass over one edited document. *)

EditedPaths == {1}

\* A document: its front matter head (url line, read_later_id line) and body.
Doc(hasUrl, rid, read, favorite, text) ==
    [exists |-> TRUE, mtime |-> 0, url |-> hasUrl, rid |-> rid,
     read |-> read, favorite |-> favorite, archived |-> "absent",
     progress |-> "absent", notes |-> [match |-> text # <<>>, text |-> text]]

NotesTexts == {<<>>, <<" ", "A">>, <<"B", "##", "A">>}

ImportDocs ==
    { Doc(TRUE, 1, r, f, n) :
        r \in {"absent", "false", "'true'"}, f \in {"absent", "true", "false"},
        n \in NotesTexts }
    \cup { Doc(FALSE, 1, "true", "false", n) : n \in {<<>>, <<"B">>} }
    \cup { Doc(TRUE, 0, "true", "false", n) : n \in {<<>>, <<"B">>} }
    \cup { Doc(TRUE, OrphanId, "true", "false", n) : n \in {<<>>, <<"B">>} }

InitImport ==
    /\ InitEngine
    /\ articles = [i \in Ids |-> NewArticle(i, 0)]
    /\ vault = [p \in Paths |-> NoFile]
    /\ config = DefaultConfig
    /\ storeHasUnsynced = FALSE

NextImport ==
    \/ Tick
    \/ \E p \in EditedPaths, d \in ImportDocs : UserEditFile(p, d)
    \/ \E v \in {"true", "false"} : ApiUpdateArticle(1, "is_read", v)
    \/ \E n \in {<<>>, <<"A">>} : ApiUpdateArticle(1, "notes", n)
    \/ \E p \in EditedPaths : ProcessObsidianFile(p)
    \/ SyncFromObsidian

SpecImport == InitImport /\ [][NextImport]_vars

---------------------------------------------------------------------------
(* Conflict resolution over one edited document. *)

Policies == {"obsidian_wins", "app_wins", "merge", "ask"}

ResolveDocs ==
    { Doc(TRUE, 1, r, f, n) :
        r \in {"absent", "false", "'true'"}, f \in {"absent", "true"},
        n \in {<<>>, <<" ", "A">>, <<"B">>} }

InitResolve ==
    /\ InitEngine
    /\ articles = [i \in Ids |-> NewArticle(i, 0)]
    /\ vault = [p \in Paths |-> NoFile]
    /\ \E policy \in Policies : config = Config("both", policy, TRUE, "default")
    /\ storeHasUnsynced = FALSE

NextResolve ==
    \/ Tick
    \/ \E p \in EditedPaths, d \in ResolveDocs : UserEditFile(p, d)
    \/ \E p \in EditedPaths : UserDeleteFile(p)
    \/ \E v \in {"true", "false"} : ApiUpdateArticle(1, "is_read", v)
    \/ \E n \in {<<>>, <<"A">>} : ApiUpdateArticle(1, "notes", n)
    \/ ApiDeleteArticle(1)
    \/ \E p \in EditedPaths : ProcessObsidianFile(p)
    \/ \E strategy \in {"", "merge", "newest"} : ApiResolveConflicts(strategy)

SpecResolve == InitResolve /\ [][NextResolve]_vars

---------------------------------------------------------------------------
(* Export passes over the whole store, each followed by imports. *)

InitExport ==
    /\ InitEngine
    /\ articles \in [Ids -> {NewArticle(t, 0) : t \in Paths}]
    /\ vault = [p \in Paths |-> NoFile]
    /\ \E template \in Templates : config = Config("both", "merge", TRUE, template)
    /\ storeHasUnsynced \in BOOLEAN

NextExport ==
    \/ Tick
    \/ SyncToObsidian
    \/ SyncFromObsidian
    \/ \E p \in Paths : ProcessObsidianFile(p)
    \/ \E v \in {"true"} : ApiUpdateArticle(1, "is_read", v)

SpecExport == InitExport /\ [][NextExport]_vars

---------------------------------------------------------------------------
(* Full syncs, with the user editing one document and a caller importing   *)
(* it meanwhile.                                                           *)

InitSync ==
    /\ InitEngine
    /\ articles = [i \in Ids |-> NewArticle(i, 0)]
    /\ vault = [p \in Paths |-> NoFile]
    /\ \E direction \in {"export", "import", "both"}, backup \in BOOLEAN :
          config = Config(direction, "merge", backup, "default")
    /\ storeHasUnsynced \in BOOLEAN

SyncDocs == {Doc(TRUE, 1, "'true'", "absent", <<"B">>)}

\* The caller of this scenario waits for one full sync before the next.
OneRequest == {1}

NextSync ==
    \/ Tick
    \/ \E d \in SyncDocs : UserEditFile(1, d)
    \/ ProcessObsidianFile(1)
    \/ \E r \in OneRequest : FullSyncStart(r)
    \/ \E r \in OneRequest : FullSyncBackup(r)
    \/ \E r \in OneRequest : FullSyncExport(r)
    \/ \E r \in OneRequest : FullSyncImport(r)
    \/ \E r \in OneRequest : FullSyncResolve(r)
    \/ \E r \in OneRequest : FullSyncReturn(r)

SpecSync == InitSync /\ [][NextSync]_vars

---------------------------------------------------------------------------
(* Claims about the import pass. *)

\* The document at p is managed and its record is in the store.
Managed(p) ==
    /\ vault[p].exists
    /\ vault[p].url
    /\ HasArticle(articles, vault[p].rid)

RecordOf(p) == articles[vault[p].rid]

\* The tracked values of the document at p are those of its record.
TrackedSame(p) ==
    /\ CoerceValue(vault[p].read) = RecordOf(p).is_read
    /\ CoerceValue(vault[p].favorite) = RecordOf(p).is_favorite
    /\ ObsidianNotes(vault[p]) = RecordOf(p).notes

NoConflictItem(items) == \A i \in 1 .. Len(items) : items[i].action # "conflict"

\* C2: an import of a managed document whose modification time is earlier
\* than or equal to its record's updated_at creates and queues no conflict,
\* whatever the document's read, favorite and notes values are.
C2_NotNewerNeverConflicts ==
    [][\A p \in Paths :
          (/\ ProcessObsidianFile(p)
           /\ Managed(p)
           /\ vault[p].mtime <= RecordOf(p).updated_at)
          => (conflicts' = conflicts /\ NoConflictItem(last'.items))]_vars

\* A document not newer than its record, with a differing tracked value, was
\* processed.
C2_Witness ==
    /\ last.op = "processObsidianFile"
    /\ last.seen[1].managed
    /\ ~last.seen[1].newer
    /\ last.seen[1].changes # {}
    /\ last.items[1].action = "imported"

\* C3: an import of a managed document strictly newer than its record whose
\* tracked values are identical to the record's creates no conflict and
\* leaves the conflict queue unchanged.
C3_NewerIdenticalNeverConflicts ==
    [][\A p \in Paths :
          (/\ ProcessObsidianFile(p)
           /\ Managed(p)
           /\ vault[p].mtime > RecordOf(p).updated_at
           /\ TrackedSame(p))
          => (conflicts' = conflicts /\ NoConflictItem(last'.items))]_vars

\* A strictly newer document with the record's values, its notes written
\* with surrounding white space, was processed.
C3_Witness ==
    /\ last.op = "processObsidianFile"
    /\ last.seen[1].managed
    /\ last.seen[1].newer
    /\ last.seen[1].changes = {}
    /\ \E p \in Paths : Managed(p) /\ RecordOf(p).notes = <<"A">>
                        /\ vault[p].notes.text = <<" ", "A">>

\* C4: when an import detects a conflict for a document it appends exactly
\* one conflict for that document to the queue, reports the item with action
\* conflict and leaves every field of every record unchanged.
C4_ConflictQueuedRecordUntouched ==
    [][\A p \in Paths :
          (/\ ProcessObsidianFile(p)
           /\ Managed(p)
           /\ vault[p].mtime > RecordOf(p).updated_at
           /\ ~TrackedSame(p))
          => (/\ conflicts' = Append(conflicts, Conflict(vault[p].rid, p))
              /\ last'.items = <<[file |-> p, success |-> FALSE, action |-> "conflict"]>>
              /\ articles' = articles)]_vars

\* A conflict was detected and queued.
C4_Witness ==
    /\ last.op = "processObsidianFile"
    /\ last.items[1].action = "conflict"
    /\ last.seen[1].newer
    /\ last.seen[1].changes # {}
    /\ conflicts # <<>>

---------------------------------------------------------------------------
(* Claims about conflict resolution. *)

\* The i-th outcome of the resolveConflicts call that just returned has
\* resolution kind.
ResolvedAs(i, kind) ==
    /\ last.op = "resolveConflicts"
    /\ i \in 1 .. Len(last.items)
    /\ last.items[i].success
    /\ last.items[i].action = kind

\* The store holds what the last resolution of the call left.
StoreIsLastAfter ==
    last.op = "resolveConflicts" /\ last.items # <<>> =>
        LET s == last.seen[Len(last.seen)] IN
        s.had => articles[conflicts[Len(conflicts)].articleId] = s.after

C9_MergeNotes ==
    /\ StoreIsLastAfter
    /\ \A i \in 1 .. Len(last.items) : ResolvedAs(i, "merged") =>
        LET s == last.seen[i]
            b == s.before.notes
            o == ObsidianNotes(s.doc)
        IN /\ (b # <<>> /\ o # <<>> /\ b # o) => s.after.notes = b \o <<"SEP">> \o o
           /\ (b = <<>> /\ o # <<>>) => s.after.notes = o
           /\ (b # <<>> /\ o = <<>>) => s.after.notes = b

\* A merge concatenated differing notes of both sides.
C9_Witness ==
    \E i \in 1 .. Len(last.items) :
        /\ ResolvedAs(i, "merged")
        /\ last.seen[i].before.notes = <<"A">>
        /\ ObsidianNotes(last.seen[i].doc) = <<"B">>
        /\ articles[1].notes = <<"A", "SEP", "B">>

\* A merge adopted the notes of the one side that had any.
C9_WitnessOneSide ==
    \E i \in 1 .. Len(last.items) :
        /\ ResolvedAs(i, "merged")
        /\ last.seen[i].before.notes = <<>>
        /\ articles[1].notes = <<"B">>

\* C10: after a successful vault-wins resolution the record's is_read and
\* is_favorite equal the document's read and favorite values and the
\* record's notes equal the document's notes section, whatever that section
\* holds.
C10_VaultWinsCopiesDocument ==
    \A i \in 1 .. Len(last.items) :
        (ResolvedAs(i, "obsidian_wins") /\ last.seen[i].had) =>
        LET s == last.seen[i] IN
        /\ s.doc.read # "absent" => s.after.is_read = CoerceValue(s.doc.read)
        /\ s.doc.favorite # "absent" => s.after.is_favorite = CoerceValue(s.doc.favorite)
        /\ s.after.notes = ObsidianNotes(s.doc)

---------------------------------------------------------------------------
(* Claims about the export pass. *)

\* The export pass that just returned wrote the k-th record it listed.
Exported(k) ==
    /\ last.op = "syncToObsidian"
    /\ k \in 1 .. Len(last.items)
    /\ last.items[k].success

\* C1: when an export pass has written a record's document and an import
\* pass runs immediately afterwards, nothing edited in between, the import
\* report has an entry with action no_changes for that document and the
\* record's is_read, is_favorite, progress and notes are unchanged.
C1_ExportThenImportNoChanges ==
    [][(last.op = "syncToObsidian" /\ last'.op = "syncFromObsidian") =>
          \A k \in 1 .. Len(last.items) : Exported(k) =>
             LET id == last.seen[k].id IN
             /\ \E j \in 1 .. Len(last'.items) :
                   /\ last'.items[j].file = last.items[k].file
                   /\ last'.items[j].action = "no_changes"
             /\ articles'[id].is_read = articles[id].is_read
             /\ articles'[id].is_favorite = articles[id].is_favorite
             /\ articles'[id].reading_progress = articles[id].reading_progress
             /\ articles'[id].notes = articles[id].notes]_vars

\* C5: in an export pass a record whose write fails is reported as a failed
\* item and is not marked synced, every other unsynced record is still
\* written and marked synced, and the report counts the records written as
\* synced and the records that failed as failed.
C5_ExportIsolatesFailures ==
    [][(last'.op = "syncToObsidian" /\ last'.error = "") =>
          LET ids == GetUnsyncedArticles(articles)
              threw == {k \in 1 .. Len(last'.seen) : last'.seen[k].threw}
          IN /\ Len(last'.items) = Len(ids)
             /\ Len(last'.seen) = Len(ids)
             /\ \A k \in 1 .. Len(ids) :
                   LET id == ids[k]
                       item == last'.items[k]
                   IN /\ last'.seen[k].id = id
                      /\ IF k \in threw
                         THEN /\ ~item.success
                              /\ item.action = "export_failed"
                              /\ articles'[id] = articles[id]
                         ELSE /\ item.success
                              /\ item.action = "exported"
                              /\ vault'[FilePath(articles[id])].exists
                              /\ vault'[FilePath(articles[id])].mtime = clock
                              /\ articles'[id].obsidian_path = FilePath(articles[id])
                              /\ articles'[id].obsidian_synced_at = clock
             /\ last'.synced = Len(ids) - Cardinality(threw)
             /\ last'.failed = Cardinality(threw)]_vars

\* An export pass failed to write its first record and wrote the next.
C5_Witness ==
    /\ last.op = "syncToObsidian"
    /\ Len(last.items) = 2
    /\ last.seen[1].threw /\ ~last.items[1].success
    /\ Exported(2)
    /\ articles[last.seen[1].id].obsidian_synced_at = NoTime
    /\ articles[last.seen[2].id].obsidian_synced_at # NoTime
    /\ last.synced = 1 /\ last.failed = 1

---------------------------------------------------------------------------
(* Claims about the full sync. *)

PhaseRank(phase) ==
    CASE phase = "backup" -> 1
      [] phase = "export" -> 2
      [] phase = "import" -> 3
      [] phase = "resolve" -> 4

\* C6: within one full sync the phases run in the order backup, export,
\* import, conflict resolution, each after the previous one has finished: with
\* the backup enabled no record or document is modified before the backup is
\* written, and no conflict is resolved before the import pass has finished.
C6_PhasesInOrder ==
    \A r \in OneRequest :
    /\ \A i, j \in 1 .. Len(phases[r]) :
          i < j => PhaseRank(phases[r][i]) < PhaseRank(phases[r][j])
    /\ pc[r] = "backup" => phases[r] = <<>> /\ syncWrites[r] = {}
    /\ pc[r] = "export" => \A i \in 1 .. Len(phases[r]) : phases[r][i] = "backup"
    /\ pc[r] = "import" =>
          \A i \in 1 .. Len(phases[r]) : phases[r][i] \in {"backup", "export"}
    /\ (config.backupBeforeSync /\ (syncWrites[r] # {} \/ phases[r] # <<>>))
          => phases[r][1] = "backup"
    /\ (IncludesImport(config) /\ (pc[r] = "resolve" \/ PhaseRank("resolve") \in
                                {PhaseRank(phases[r][i]) : i \in 1 .. Len(phases[r])}))
          => \E i \in 1 .. Len(phases[r]) : phases[r][i] = "import"

\* A full sync ran its four phases; its export and its resolution wrote.
C6_Witness ==
    /\ pc[1] = "return"
    /\ phases[1] = <<"backup", "export", "import", "resolve">>
    /\ syncWrites[1] = {"export", "resolve"}
    /\ backups # {}

BackupFailure == "Full sync failed: Failed to create backup"

\* C7: when the backup is enabled and writing it fails, the full sync fails
\* as a whole and the invocation has modified no record and no document: no
\* export, import or resolution step has run or runs.
C7_BackupFailureIsFatal ==
    [][\A r \in OneRequest :
          (pc[r] = "backup" /\ last'.error = BackupFailure) =>
          /\ config.backupBeforeSync
          /\ last'.op = "performFullSync"
          /\ pc'[r] = "idle"
          /\ articles' = articles
          /\ vault' = vault
          /\ conflicts' = conflicts
          /\ phases'[r] = <<>>
          /\ syncWrites'[r] = {}]_vars

\* A full sync with records to export failed on its backup.
C7_Witness ==
    /\ last.op = "performFullSync"
    /\ last.error = BackupFailure
    /\ pc[1] = "idle"
    /\ config.backupBeforeSync
    /\ IncludesExport(config)
    /\ storeHasUnsynced
    /\ GetUnsyncedArticles(articles) # <<>>
    /\ phases[1] = <<>>
    /\ backups = {}

---------------------------------------------------------------------------
(* Record-wins resolution of documents the user keeps at any path of the   *)
(* vault folder.                                                           *)

MovedDocs == {Doc(TRUE, 1, "'true'", "absent", <<"B">>)}

InitMoved ==
    /\ InitEngine
    /\ articles = [i \in Ids |-> NewArticle(i, 0)]
    /\ vault = [p \in Paths |-> NoFile]
    /\ config = Config("both", "app_wins", TRUE, "default")
    /\ storeHasUnsynced = FALSE

NextMoved ==
    \/ Tick
    \/ \E p \in Paths, d \in MovedDocs : UserEditFile(p, d)
    \/ \E p \in Paths : UserDeleteFile(p)
    \/ \E p \in Paths : ProcessObsidianFile(p)
    \/ ApiResolveConflicts("")

SpecMoved == InitMoved /\ [][NextMoved]_vars

\* The paths of the conflicts of queue q.
ConflictPaths(q) == {q[i].obsidianFile : i \in 1 .. Len(q)}

\* C11: a successful record-wins resolution overwrites the vault file at the
\* path recorded in the conflict with the rendering of the current record,
\* writes no other vault file and leaves the record's fields unchanged.
C11_AppWinsOverwritesInPlace ==
    [][(last'.op = "resolveConflicts" /\ config'.conflictResolution = "app_wins") =>
          /\ \A i \in 1 .. Len(conflicts) : last'.items[i].success =>
                LET c == conflicts[i] IN
                /\ vault'[c.obsidianFile] =
                      [GenerateMarkdownContent(articles[c.articleId], config'.template)
                          EXCEPT !.mtime = clock]
                /\ articles'[c.articleId] = articles[c.articleId]
          /\ \A p \in Paths \ ConflictPaths(conflicts) : vault'[p] = vault[p]]_vars

---------------------------------------------------------------------------
(* Claims about the policies and the loop of resolveConflicts. *)

Automatic == {"obsidian_wins", "app_wins", "merge"}

\* C12: with the manual (ask) policy, or any policy value other than the
\* three automatic ones, resolving a conflict returns a failure outcome with
\* reason 'Manual resolution required' and modifies neither the record nor
\* the vault document.
C12_ManualPolicyDeclines ==
    [][(last'.op = "resolveConflicts" /\ config'.conflictResolution \notin Automatic) =>
          /\ Len(last'.items) = Len(conflicts)
          /\ \A i \in 1 .. Len(last'.items) :
                ~last'.items[i].success /\ last'.items[i].action = "manual"
          /\ articles' = articles
          /\ vault' = vault]_vars

\* A conflict between a record and its newer document was declined under
\* the ask policy.
C12_Witness ==
    /\ last.op = "resolveConflicts"
    /\ config.conflictResolution = "ask"
    /\ last.items # <<>>
    /\ last.items[1].action = "manual"
    /\ last.seen[1].had
    /\ last.seen[1].doc.exists
    /\ last.seen[1].doc.read = "'true'"
    /\ last.seen[1].after.is_read = "false"

\* A conflict was declined under a policy value the engine does not know.
C12_WitnessUnknown ==
    /\ last.op = "resolveConflicts"
    /\ config.conflictResolution = "newest"
    /\ last.items # <<>>
    /\ last.items[1].action = "manual"

\* C13: under each of the policies vault-wins, record-wins and merge, the
\* outcome for a conflict whose record has been deleted from the store since
\* its detection is a failure: no resolution reports success for a record
\* that no longer exists.
C13_DeletedRecordNeverResolved ==
    (last.op = "resolveConflicts" /\ config.conflictResolution \in Automatic) =>
        \A i \in 1 .. Len(last.items) :
            ~last.seen[i].had => ~last.items[i].success

---------------------------------------------------------------------------
(* Claims about the queue and the marks the passes leave. *)

PassOps == {"syncToObsidian", "syncFromObsidian", "performFullSync"}

\* The positions of the items reported as conflicts.
ConflictItems(items) == {i \in 1 .. Len(items) : items[i].action = "conflict"}

\* C15: every export pass, import pass or full sync starts with an empty
\* conflict queue: when it returns, the queue holds only the conflicts that
\* invocation detected, at most one per vault document, whatever earlier
\* invocations left behind.
C15_PassStartsWithEmptyQueue ==
    [][last'.op \in PassOps =>
          /\ Len(conflicts') = Cardinality(ConflictItems(last'.items))
          /\ \A i, j \in 1 .. Len(conflicts') :
                conflicts'[i].obsidianFile = conflicts'[j].obsidianFile => i = j]_vars

\* The export pass that just returned reports the record id at position k.
ExportedAt(report, id, k) ==
    /\ report.op = "syncToObsidian"
    /\ k \in 1 .. Len(report.items)
    /\ report.seen[k].id = id

\* C16: a record's obsidian_synced_at and obsidian_path are set only by an
\* export that has written that record's file successfully; a record whose
\* export write failed keeps its previous values.
C16_SyncedOnlyAfterWrite ==
    [][\A id \in Ids :
          (\/ articles'[id].obsidian_synced_at # articles[id].obsidian_synced_at
           \/ articles'[id].obsidian_path # articles[id].obsidian_path)
          => \E k \in 1 .. Len(last'.items) :
                /\ ExportedAt(last', id, k)
                /\ ~last'.seen[k].threw
                /\ last'.items[k].success
                /\ articles'[id].obsidian_path = FilePath(articles[id])
                /\ articles'[id].obsidian_synced_at = clock
                /\ vault'[articles'[id].obsidian_path].exists
                /\ vault'[articles'[id].obsidian_path].mtime = clock]_vars

\* A record synced by an earlier export kept the time of that export when a
\* later export failed to write it, while the other record was synced anew.
C16_Witness ==
    /\ clock > 0
    /\ \E id, other \in Ids, k, j \in 1 .. Len(last.items) :
          /\ ExportedAt(last, id, k)
          /\ last.seen[k].threw
          /\ articles[id].obsidian_synced_at \notin {NoTime, clock}
          /\ articles[id].obsidian_path # NoPath
          /\ ExportedAt(last, other, j)
          /\ last.items[j].success
          /\ articles[other].obsidian_synced_at = clock

---------------------------------------------------------------------------
(* Engines built from any configuration and reconfigured while in use. *)

\* updateConfig(newConfig) called on the engine.
UpdateConfigCall(newConfig) ==
    /\ config' = UpdateConfig(config, newConfig)
    /\ last' = NoReport
    /\ UNCHANGED <<articles, vault, conflicts, clock, storeHasUnsynced,
                   pc, phases, syncWrites, results, backups>>

Directions == {"export", "import", "both"}

\* The configurations new ObsidianSync(db, config) is given: the vault root
\* is '' when config names none, the direction is any string.
Configs ==
    { [Config(direction, "merge", backup, "default") EXCEPT !.vaultPath = root] :
        direction \in {"both", "sideways"}, backup \in BOOLEAN,
        root \in {"", "vault"} }

ConfigUpdates ==
    { [vaultPath |-> ""], [vaultPath |-> "vault"], [syncDirection |-> "both"] }

\* The store holds one record.
InitConfig ==
    /\ InitEngine
    /\ articles = [i \in Ids |-> IF i = 1 THEN NewArticle(i, 0) ELSE NoArticle]
    /\ vault = [p \in Paths |-> NoFile]
    /\ config \in Configs
    /\ storeHasUnsynced \in BOOLEAN

NextConfig ==
    \/ Tick
    \/ \E newConfig \in ConfigUpdates : UpdateConfigCall(newConfig)
    \/ \E d \in SyncDocs : UserEditFile(1, d)
    \/ ProcessObsidianFile(1)
    \/ SyncToObsidian
    \/ SyncFromObsidian
    \/ \E r \in OneRequest : FullSyncStart(r)
    \/ \E r \in OneRequest : FullSyncBackup(r)
    \/ \E r \in OneRequest : FullSyncExport(r)
    \/ \E r \in OneRequest : FullSyncImport(r)
    \/ \E r \in OneRequest : FullSyncResolve(r)
    \/ \E r \in OneRequest : FullSyncReturn(r)

SpecConfig == InitConfig /\ [][NextConfig]_vars

\* C17: a configuration error makes the whole call fail: with an empty vault
\* root an export pass, an import pass and a full sync each fail and write
\* nothing to the vault or the store, and a full sync fails when the sync
\* direction is not one of export, import, both.
C17_ConfigurationErrorFails ==
    [][/\ (config.vaultPath = "" /\ last'.op \in PassOps) =>
             (last'.error # "" /\ articles' = articles /\ vault' = vault)
       /\ (config.syncDirection \notin Directions /\ last'.op = "performFullSync") =>
             last'.error # ""]_vars

\* C18: after any sequence of updateConfig calls on an engine configured with
\* a non-empty vault root the vault root is still non-empty.
C18_VaultRootStaysSet ==
    [][config.vaultPath # "" => config'.vaultPath # ""]_vars

---------------------------------------------------------------------------
(* Claims about foreign and orphaned documents. *)

\* C19: an import of a document lacking the url or the record-id key reports
\* it with action skipped, and an import of a managed document whose record
\* id is not in the store reports it with action orphaned; in both cases no
\* record is modified and nothing is added to the conflict queue.
C19_SkippedAndOrphaned ==
    [][\A p \in Paths :
          (ProcessObsidianFile(p) /\ ~Managed(p)) =>
             /\ last'.items =
                   <<[file |-> p, success |-> FALSE,
                      action |-> IF ~vault[p].url \/ vault[p].rid = 0
                                 THEN "skipped" ELSE "orphaned"]>>
             /\ articles' = articles
             /\ conflicts' = conflicts]_vars

\* A document with tracked values and notes that names a record the store
\* does not hold was reported as orphaned.
C19_Witness ==
    /\ last.op = "processObsidianFile"
    /\ last.items[1].action = "orphaned"
    /\ \E p \in Paths : /\ vault[p].exists /\ vault[p].url
                        /\ vault[p].rid = OrphanId
                        /\ vault[p].notes.text = <<"B">>

\* A document with a record id and no url was reported as skipped.
C19_WitnessSkipped ==
    /\ last.op = "processObsidianFile"
    /\ last.items[1].action = "skipped"
    /\ \E p \in Paths : vault[p].exists /\ ~vault[p].url /\ vault[p].rid = 1

---------------------------------------------------------------------------
(* Requests for a full sync that arrive while another is being handled. *)

\* The engine one tick after its record was created.
InitConcurrent ==
    /\ conflicts = <<>>
    /\ clock = 1
    /\ pc = [r \in Requests |-> "idle"]
    /\ phases = [r \in Requests |-> <<>>]
    /\ syncWrites = [r \in Requests |-> {}]
    /\ results = [r \in Requests |-> NoResults]
    /\ backups = {}
    /\ last = NoReport
    /\ articles = [i \in Ids |-> IF i = 1 THEN NewArticle(i, 0) ELSE NoArticle]
    /\ vault = [p \in Paths |-> NoFile]
    /\ \E backup \in BOOLEAN : config = Config("both", "merge", backup, "default")
    /\ storeHasUnsynced = TRUE

\* GET /api/sync/obsidian?type=full: the handler awaits performFullSync and
\* the server takes the next request at every await.
NextConcurrent ==
    \/ \E d \in SyncDocs : UserEditFile(1, d)
    \/ ProcessObsidianFile(1)
    \/ \E r \in Requests : FullSyncStart(r)
    \/ \E r \in Requests : FullSyncBackup(r)
    \/ \E r \in Requests : FullSyncExport(r)
    \/ \E r \in Requests : FullSyncImport(r)
    \/ \E r \in Requests : FullSyncResolve(r)
    \/ \E r \in Requests : FullSyncReturn(r)

SpecConcurrent == InitConcurrent /\ [][NextConcurrent]_vars

\* The requests whose full sync has started and not returned.
InFlight == {r \in Requests : pc[r] # "idle"}

\* C20: no two sync passes are in flight at once on the same vault: a pass
\* requested while another is running is not started until that one has
\* returned, so no pass resets the conflict queue of a pass in progress.
C20_PassesSerialized ==
    [][/\ Cardinality(InFlight') <= 1
       /\ \A r \in Requests :
             (pc[r] = "idle" /\ pc'[r] # "idle") => InFlight = {}]_vars

---------------------------------------------------------------------------
(* Claims about the scan of the vault folder. *)

\* The documents the vault folder holds, in the order of the walk.
DocumentsIn(files) == SelectSeq(SetToSeq(Paths), LAMBDA p : files[p].exists)

\* C21: the scan returns exactly one document for every file with the
\* managed extension at any depth under the vault folder.
C21_ScanReturnsEveryDocument ==
    ScanObsidianFiles(vault) = DocumentsIn(vault)

\* C22: the scan of a vault folder that does not exist returns no document
\* and raises no error, and an import pass over it returns a report with zero
\* synced and zero failed items and modifies no record.
C22_MissingFolderScansEmpty ==
    [][(last'.op = "syncFromObsidian" /\ FolderMissing(vault)) =>
          /\ ScanObsidianFiles(vault) = <<>>
          /\ last'.error = ""
          /\ last'.items = <<>>
          /\ last'.synced = 0
          /\ last'.failed = 0
          /\ articles' = articles]_vars

\* An import pass over a vault folder that was never created has returned,
\* with a record in the store.
C22_Witness ==
    /\ last.op = "syncFromObsidian"
    /\ last.error = ""
    /\ FolderMissing(vault)
    /\ backups = {}
    /\ \E id \in Ids : HasArticle(articles, id)

----------------------------------------------------------------------------
(* Reading progress: the progress route, the record update route, the
   import of a document and the resolution of a conflict. *)

\* PUT /api/articles/:id/progress with body {progress}: a 400 unless the
\* value is a number between 0 and 1, updateReadingProgress otherwise.
IsValidProgress(v) == v \in {"num:0", "num:0.5", "num:1"}

ApiUpdateProgress(id, v) ==
    /\ HasArticle(articles, id)
    /\ articles' = IF IsValidProgress(v)
                   THEN UpdateArticle(articles, id, [g \in {"reading_progress"} |-> v], clock)
                   ELSE articles
    /\ last' = NoReport
    /\ UNCHANGED <<vault, conflicts, config, clock, storeHasUnsynced,
                   pc, phases, syncWrites, results, backups>>

ProgressValues == {"num:0.5", "num:1", "num:1.5", "str:1"}

ProgressDocs ==
    { [Doc(TRUE, 1, r, "absent", <<>>) EXCEPT !.progress = g] :
        r \in {"absent", "'true'"}, g \in {"absent", "0.5", "1.5"} }

InitProgress ==
    /\ InitEngine
    /\ articles = [i \in Ids |-> NewArticle(i, 0)]
    /\ vault = [p \in Paths |-> NoFile]
    /\ config = DefaultConfig
    /\ storeHasUnsynced = FALSE

NextProgress ==
    \/ Tick
    \/ \E p \in EditedPaths, d \in ProgressDocs : UserEditFile(p, d)
    \/ \E v \in ProgressValues : ApiUpdateProgress(1, v)
    \/ \E v \in ProgressValues : ApiUpdateArticle(1, "reading_progress", v)
    \/ \E p \in EditedPaths : ProcessObsidianFile(p)
    \/ ApiResolveConflicts("obsidian_wins")

SpecProgress == InitProgress /\ [][NextProgress]_vars

\* C23: in every reachable state each record's reading progress is a number
\* between 0 and 1, whatever progress updates, record updates, imports and
\* conflict resolutions came before.
C23_ProgressWithinUnitInterval ==
    \A id \in Ids : HasArticle(articles, id) =>
        IsValidProgress(articles[id].reading_progress)

\* C23, the import alone: processing a document never leaves a record with a
\* progress outside 0..1 when it had one inside before.
C23_ImportKeepsProgressWithin ==
    [][(last'.op = "processObsidianFile" /\ C23_ProgressWithinUnitInterval)
          => C23_ProgressWithinUnitInterval']_vars

----------------------------------------------------------------------------
(* File names.  A title is a sequence of characters; sanitizeFileName is
   computed character by character as its two replace() calls, trim() and
   substring() compute it. *)

MaxTitleLen == 3    \* length of the enumerated titles
TitleLimit == 100   \* substring(0, 100)

IllegalChars == {"<", ">", ":", "\"", "/", "\\", "|", "?", "*"}
WhiteSpace == {" ", "\t", "\n"}
Untitled == <<"u", "n", "t", "i", "t", "l", "e", "d">>
Extension == <<".", "m", "d">>

\* .replace(/[<>:"/\\|?*]/g, '')
RemoveIllegal(name) == SelectSeq(name, LAMBDA c : c \notin IllegalChars)

\* .replace(/\s+/g, ' '): the first character of each whitespace run is kept,
\* as a space.
CollapseWhiteSpace(name) ==
    LET starts == SelectSeq([i \in 1..Len(name) |-> i],
                            LAMBDA i : \/ name[i] \notin WhiteSpace
                                       \/ i = 1
                                       \/ name[i - 1] \notin WhiteSpace)
    IN [k \in 1..Len(starts) |->
           IF name[starts[k]] \in WhiteSpace THEN " " ELSE name[starts[k]]]

\* .substring(0, 100)
Substring(name, limit) ==
    SubSeq(name, 1, IF Len(name) < limit THEN Len(name) ELSE limit)

SanitizeFileName(name) ==
    IF name = <<>> THEN Untitled
    ELSE Substring(Trim(CollapseWhiteSpace(RemoveIllegal(name))), TitleLimit)

\* const fileName = this.sanitizeFileName(article.title) + '.md'
FileName(title) == SanitizeFileName(title) \o Extension

Repeat(c, n) == [i \in 1..n |-> c]

TitleChars == {"a", " ", "\t", "?", "/"}

ShortTitles == UNION { [1..n -> TitleChars] : n \in 0..MaxTitleLen }

LongTitles ==
    { pre \o Repeat("a", n) \o suf :
        pre \in {<<>>, <<" ">>, <<"?">>},
        n \in {TitleLimit - 1, TitleLimit, TitleLimit + 1},
        suf \in {<<>>, <<" ", "a">>, <<"\t", " ">>} }

Titles == ShortTitles \cup LongTitles

\* The file name createMarkdownFile computes for a record of this title.
CreateFileName(title) ==
    /\ last' = Report("sanitizeFileName", "",
                      <<[title |-> title, file |-> FileName(title), success |-> TRUE]>>, <<>>)
    /\ UNCHANGED <<articles, vault, conflicts, config, clock, storeHasUnsynced,
                   pc, phases, syncWrites, results, backups>>

InitFileName ==
    /\ InitEngine
    /\ articles = [i \in Ids |-> NoArticle]
    /\ vault = [p \in Paths |-> NoFile]
    /\ config = DefaultConfig
    /\ storeHasUnsynced = FALSE

NextFileName == \E title \in Titles : CreateFileName(title)

SpecFileName == InitFileName /\ [][NextFileName]_vars

\* The reference: remove the illegal characters, collapse each whitespace run
\* to one space, trim, truncate to 100 characters, 'untitled' when the
\* result is empty, then the extension.
ReferenceFileName(title) ==
    LET kept == SelectSeq(title, LAMBDA c : c \notin IllegalChars)
        name == Substring(Trim(CollapseWhiteSpace(kept)), TitleLimit)
    IN (IF name = <<>> THEN Untitled ELSE name) \o Extension

NameWithoutExtension(file) == SubSeq(file, 1, Len(file) - Len(Extension))

\* C24: for every title the file name is the reference result; no illegal
\* character survives and the name without the extension is never empty.
C24_FileNameIsReference ==
    last.op = "sanitizeFileName" =>
        LET r == last.items[1] IN
        /\ r.file = ReferenceFileName(r.title)
        /\ \A i \in 1..Len(r.file) : r.file[i] \notin IllegalChars
        /\ NameWithoutExtension(r.file) # <<>>

\* C24, the part the code keeps: whenever the cleaned title is not empty the
\* file name is the reference result, at most 100 characters and the
\* extension, without illegal character.
C24_FileNameIsReferenceUnlessEmpty ==
    last.op = "sanitizeFileName" =>
        LET r == last.items[1] IN
        NameWithoutExtension(r.file) # <<>> =>
            /\ r.file = ReferenceFileName(r.title)
            /\ Len(NameWithoutExtension(r.file)) <= TitleLimit
            /\ \A i \in 1..Len(r.file) : r.file[i] \notin IllegalChars

----------------------------------------------------------------------------
(* Creating records: POST /api/articles, handled by several requests at
   once.  A request that has to extract the page is suspended at
   `await extractor.extractFromUrl(url)`: pc[r] = "extract", and results[r]
   holds the url it was called with. *)

Urls == {"u", "v"}

\* The title of the page at a url.
TitleOf(url) == IF url = "u" THEN 1 ELSE 2

\* this.articles.find(article => article.url === url)
GetArticleByUrl(db, url) == \E id \in Ids : db[id].exists /\ db[id].url = url

\* The id createArticle hands out (this.nextId++): no record is deleted here,
\* so it is the first id without a record; 0 when the store is full.
NextId(db) ==
    IF \A id \in Ids : db[id].exists THEN 0
    ELSE CHOOSE id \in Ids : ~db[id].exists /\ \A j \in Ids : j < id => db[j].exists

\* createArticle(articleData): the record is built and pushed, with no look
\* at the urls the store holds.
CreateArticle(db, url, now) ==
    LET a == NewArticle(TitleOf(url), now) IN
    [db EXCEPT ![NextId(db)] =
        [f \in DOMAIN a \cup {"url"} |-> IF f = "url" THEN url ELSE a[f]]]

CreateReply(status) == Report("createArticle", status, <<>>, <<>>)

\* POST /api/articles with body {url} or {url, title, content}, up to the
\* reply or to the await of the extraction.
ApiCreateArticle(r, url, withContent) ==
    /\ pc[r] = "idle"
    /\ IF url = ""
       THEN /\ last' = CreateReply("400 URL is required")
            /\ UNCHANGED <<articles, pc, results>>
       ELSE IF GetArticleByUrl(articles, url)
       THEN /\ last' = CreateReply("409 Article already exists")
            /\ UNCHANGED <<articles, pc, results>>
       ELSE IF withContent
       THEN /\ NextId(articles) # 0
            /\ articles' = CreateArticle(articles, url, clock)
            /\ last' = CreateReply("201")
            /\ UNCHANGED <<pc, results>>
       ELSE /\ pc' = [pc EXCEPT ![r] = "extract"]
            /\ results' = [results EXCEPT ![r] = [url |-> url]]
            /\ last' = NoReport
            /\ UNCHANGED articles
    /\ UNCHANGED <<vault, conflicts, config, clock, storeHasUnsynced,
                   phases, syncWrites, backups>>

\* The extraction resolves: createArticle(articleData) and the 201.
ApiCreateArticleExtracted(r) ==
    /\ pc[r] = "extract"
    /\ NextId(articles) # 0
    /\ articles' = CreateArticle(articles, results[r].url, clock)
    /\ pc' = [pc EXCEPT ![r] = "idle"]
    /\ results' = [results EXCEPT ![r] = NoResults]
    /\ last' = CreateReply("201")
    /\ UNCHANGED <<vault, conflicts, config, clock, storeHasUnsynced,
                   phases, syncWrites, backups>>

\* The extraction rejects: the 500, no record.
ApiCreateArticleFailed(r) ==
    /\ pc[r] = "extract"
    /\ pc' = [pc EXCEPT ![r] = "idle"]
    /\ results' = [results EXCEPT ![r] = NoResults]
    /\ last' = CreateReply("500")
    /\ UNCHANGED <<articles, vault, conflicts, config, clock, storeHasUnsynced,
                   phases, syncWrites, backups>>

InitCreate ==
    /\ InitEngine
    /\ articles = [i \in Ids |-> NoArticle]
    /\ vault = [p \in Paths |-> NoFile]
    /\ config = DefaultConfig
    /\ storeHasUnsynced = FALSE

NextCreate ==
    \/ Tick
    \/ \E r \in Requests, url \in Urls \cup {""}, withContent \in BOOLEAN :
          ApiCreateArticle(r, url, withContent)
    \/ \E r \in Requests : ApiCreateArticleExtracted(r)
    \/ \E r \in Requests : ApiCreateArticleFailed(r)

SpecCreate == InitCreate /\ [][NextCreate]_vars

\* C25: no two stored records have the same url, whatever create requests
\* were handled, two for one url at the same time included.
C25_UrlsAreUnique ==
    \A i, j \in Ids :
        (i # j /\ articles[i].exists /\ articles[j].exists)
            => articles[i].url # articles[j].url

\* C25, the part the code keeps: a create request arriving for a url the
\* store already holds is answered 409 and adds no record.
C25_StoredUrlIsRejected ==
    [][(last'.op = "createArticle" /\ pc' = pc
        /\ last'.error \in {"201", "409 Article already exists"})
          => /\ (last'.error = "201" => \E id \in Ids :
                    /\ ~articles[id].exists /\ articles'[id].exists
                    /\ ~GetArticleByUrl(articles, articles'[id].url))
             /\ (last'.error # "201" => articles' = articles)]_vars

----------------------------------------------------------------------------
(* Export passes run one after the other. *)

Unsynced(db) == { i \in Ids : db[i].exists /\ db[i].obsidian_synced = FALSE }

WrittenBy(report) ==
    { report.seen[i].id : i \in { k \in 1..Len(report.seen) : ~report.seen[k].threw } }

\* C26: a record an export pass has written is no longer among the records
\* the store returns as not yet synced, and an export pass run right after
\* that pass exports it no more and rewrites no file of it.
C26_ExportIsIdempotent ==
    [][(/\ last.op = "syncToObsidian" /\ last.error = ""
        /\ last'.op = "syncToObsidian")
          => /\ WrittenBy(last) \cap Unsynced(articles) = {}
             /\ WrittenBy(last) \cap WrittenBy(last') = {}
             /\ (last.failed = 0 => last'.items = <<>> /\ vault' = vault)]_vars

\* C26, the part the code keeps: a pass exports exactly the records the
\* store returns as not yet synced, once each.
C26_PassExportsUnsyncedOnce ==
    [][(last'.op = "syncToObsidian" /\ last'.error = "")
          => /\ Len(last'.seen) = Cardinality(Unsynced(articles))
             /\ { last'.seen[i].id : i \in 1..Len(last'.seen) } = Unsynced(articles)]_vars

----------------------------------------------------------------------------
(* Documents older than their record. *)

TrackedFields == {"is_read", "is_favorite", "is_archived", "reading_progress", "notes"}

KeepsTracked(id) == \A f \in TrackedFields : articles'[id][f] = articles[id][f]

\* C27: processing a document whose modification time is not later than
\* its record's updated_at replaces none of the record's is_read,
\* is_favorite, is_archived, progress and notes.
C27_StaleDocumentKeepsRecord ==
    [][\A p \in EditedPaths :
         (/\ last'.op = "processObsidianFile"
          /\ Managed(p)
          /\ vault[p].mtime <= RecordOf(p).updated_at)
            => KeepsTracked(vault[p].rid)]_vars

\* C27 for a record edited after its document was last written: the record
\* keeps its newer values.
C27_RecordEditedLaterKeepsValues ==
    [][\A p \in EditedPaths :
         (/\ last'.op = "processObsidianFile"
          /\ Managed(p)
          /\ vault[p].mtime < RecordOf(p).updated_at)
            => KeepsTracked(vault[p].rid)]_vars

----------------------------------------------------------------------------
(* Two full syncs in a row.  The caller awaits performFullSync, lets time
   pass and calls it again, holding the first result meanwhile. *)

\* const first = await sync.performFullSync(); ...; sync.performFullSync():
\* lines 61-65 of the first invocation, then lines 23-34 of the second.
FullSyncAgain(r) ==
    /\ pc[r] = "return"
    /\ \E now \in clock .. MaxClock : clock' = now
    /\ last' = Report("performFullSync", "",
                      results[r].details \o results[r].conflicts, results[r].seen)
    /\ conflicts' = <<>>
    /\ pc' = [pc EXCEPT ![r] = FirstPhase(config, <<>>)]
    /\ phases' = [phases EXCEPT ![r] = <<>>]
    /\ syncWrites' = [syncWrites EXCEPT ![r] = {}]
    /\ results' = [results EXCEPT ![r] = NoResults]
    /\ UNCHANGED <<articles, vault, config, storeHasUnsynced, backups>>

ConvergeDocs ==
    { Doc(TRUE, 1, "'true'", "absent", <<"B">>),
      Doc(TRUE, 1, "false", "true", <<>>) }

InitConverge ==
    /\ InitEngine
    /\ articles = [i \in Ids |-> IF i = 1 THEN NewArticle(1, 0) ELSE NoArticle]
    /\ vault = [p \in Paths |-> NoFile]
    /\ \E policy \in {"obsidian_wins", "app_wins", "merge"}, backup \in BOOLEAN :
          config = Config("both", policy, backup, "default")
    /\ storeHasUnsynced = TRUE

NextConverge ==
    \/ Tick
    \/ \E p \in EditedPaths, d \in ConvergeDocs : UserEditFile(p, d)
    \/ \E p \in EditedPaths : ProcessObsidianFile(p)
    \/ \E r \in OneRequest : FullSyncStart(r)
    \/ \E r \in OneRequest : FullSyncBackup(r)
    \/ \E r \in OneRequest : FullSyncExport(r)
    \/ \E r \in OneRequest : FullSyncImport(r)
    \/ \E r \in OneRequest : FullSyncResolve(r)
    \/ \E r \in OneRequest : FullSyncReturn(r)
    \/ \E r \in OneRequest : FullSyncAgain(r)

SpecConverge == InitConverge /\ [][NextConverge]_vars

\* The second full sync is running and nothing but it has happened since the
\* first returned: the caller still holds the first result.
SecondSync ==
    /\ last.op = "performFullSync"
    /\ last.error = ""
    /\ pc[1] # "idle"

----------------------------------------------------------------------------
(* Resolving the queue twice. *)

ResolvedBy(report) ==
    { i \in 1..Len(report.items) : report.items[i].success }

\* C29: a conflict resolveConflicts has resolved is no longer in the queue,
\* and a call made right after one that resolved every conflict changes no
\* record and no document.
C29_ResolvedOnce ==
    [][/\ (last'.op = "resolveConflicts" /\ Len(last'.items) = Len(conflicts))
            => \A i \in ResolvedBy(last') :
                  \A j \in 1..Len(conflicts') : conflicts'[j] # conflicts[i]
       /\ (/\ last.op = "resolveConflicts" /\ last.items # <<>>
           /\ ResolvedBy(last) = 1..Len(last.items)
           /\ last'.op = "resolveConflicts")
            => (articles' = articles /\ vault' = vault)]_vars

----------------------------------------------------------------------------
(* The paths of one export pass. *)

\* C30: the records one export pass writes go to pairwise distinct paths,
\* and no two records of the store have the same vault path.
C30_OnePathPerRecord ==
    /\ last.op = "syncToObsidian" =>
          \A i, j \in ResolvedBy(last) : i # j => last.items[i].file # last.items[j].file
    /\ \A a, b \in Ids :
          (/\ a # b /\ articles[a].exists /\ articles[b].exists
           /\ articles[a].obsidian_path # NoPath)
            => articles[a].obsidian_path # articles[b].obsidian_path

\* C30, the part the code keeps: records of different titles are written to
\* different paths.
C30_DistinctTitlesDistinctPaths ==
    last.op = "syncToObsidian" =>
        \A i, j \in ResolvedBy(last) :
            articles[last.seen[i].id].title # articles[last.seen[j].id].title
                => last.items[i].file # last.items[j].file

===========================================================================
